---- MODULE Spec2Model ----
(***************************************************************************)
(* Model of src/src/pseudogaussians.py: sample, recover_posteriors and     *)
(* random_basis, and of the image loops of main in src/attacks.py and      *)
(* src/attacks_advanced.py.  A behaviour is one call of one of these       *)
(* functions, with arguments drawn from small sets: the functions keep no  *)
(* state from one call to the next.                                        *)
(*                                                                         *)
(* Tensors are records [kind, shape, data] with data in row-major order.   *)
(* In sample every value is an exact integer: noise draws are multiples of *)
(* NoiseUnit, so the forward and inverse transforms over axes of length    *)
(* 1, 2 or 4 (twiddle factors 1, -i, -1, i) are exact.                     *)
(* In recover_posteriors a float is a record [k, v]: k = "fin" with v the  *)
(* value in units of 1/Scale, k = "nan", or k = "inf" with v the sign.     *)
(***************************************************************************)
EXTENDS Integers, Sequences, FiniteSets, TLC

\* ---- bounds ----
MaxLen == 4
MaxNoise == 1
MaxZ == 1
MaxGauss == 1
MaxFiles == 3
MaxChain == 2

\* noise draws are multiples of NoiseUnit, the largest transform size
NoiseUnit == 4
\* fixed-point unit of the floats of recover_posteriors
Scale == 1000

Abs(x) == IF x < 0 THEN -x ELSE x
Sgn(x) == IF x < 0 THEN -1 ELSE IF x > 0 THEN 1 ELSE 0

RECURSIVE Prod(_)
Prod(s) == IF s = <<>> THEN 1 ELSE Head(s) * Prod(Tail(s))

RECURSIVE SumTo(_, _)
\* f[0] + ... + f[n-1]
SumTo(f, n) == IF n = 0 THEN 0 ELSE f[n - 1] + SumTo(f, n - 1)

RECURSIVE Strict(_, _)
\* the sequence <<f[1], ..., f[n]>>, each element computed once
Strict(f, n) == IF n = 0 THEN <<>> ELSE Append(Strict(f, n - 1), f[n])

None == [kind |-> "None"]
Tensor(shape, data) == [kind |-> "Tensor", shape |-> shape, data |-> data]
Raised(e) == [kind |-> "raised", error |-> e]

\* ---- torch.Tensor.reshape (line 10) ----
ReshapeOk(cw, shape) == Len(cw) = Prod(shape)
\* a reshape that does not keep the element order
ReshapeReversed(cw, shape) == Tensor(shape, [p \in 1..Len(cw) |-> cw[Len(cw) + 1 - p]])
Reshape(cw, shape) == Tensor(shape, cw)

\* ---- the transform over the last two axes ----
AxisH(shape) == shape[Len(shape) - 1]
AxisW(shape) == shape[Len(shape)]
\* multiply the complex number c by (-i)^q
Turn(c, q) ==
    CASE q % 4 = 0 -> c
      [] q % 4 = 1 -> <<c[2], -c[1]>>
      [] q % 4 = 2 -> <<-c[1], -c[2]>>
      [] q % 4 = 3 -> <<-c[2], c[1]>>

\* the unnormalised 2-D DFT of complex data x (row-major, shape sh);
\* dir = 1 forward, dir = -1 inverse
Dft2(x, sh, dir) ==
    LET H == AxisH(sh)
        W == AxisW(sh)
        qH == 4 \div H
        qW == 4 \div W
        At(p) ==
            LET b == (p - 1) \div (H * W)
                u == ((p - 1) % (H * W)) \div W
                v == (p - 1) % W
                term(j) ==
                    LET h == j \div W
                        w == j % W
                    IN  Turn(x[b * H * W + j + 1], dir * (qH * u * h + qW * v * w))
            IN  << SumTo([j \in 0..(H * W - 1) |-> term(j)[1]], H * W),
                   SumTo([j \in 0..(H * W - 1) |-> term(j)[2]], H * W) >>
    IN  Strict([p \in 1..Len(x) |-> At(p)], Len(x))

\* torch.fft.fft2 of a real tensor (line 20)
Fft2(t) == Dft2(Strict([p \in 1..Len(t.data) |-> <<t.data[p], 0>>], Len(t.data)), t.shape, 1)

\* roll the last two axes by sH and sW places
Roll2(x, sh, sH, sW) ==
    LET H == AxisH(sh)
        W == AxisW(sh)
        Src(p) ==
            LET b == (p - 1) \div (H * W)
                h == ((p - 1) % (H * W)) \div W
                w == (p - 1) % W
            IN  b * H * W + ((h - sH) % H) * W + ((w - sW) % W) + 1
    IN  Strict([p \in 1..Len(x) |-> x[Src(p)]], Len(x))

\* torch.fft.fftshift(.., dim=(-1,-2)) (line 20)
FftShift(x, sh) == Roll2(x, sh, AxisH(sh) \div 2, AxisW(sh) \div 2)
\* torch.fft.ifftshift(.., dim=(-1,-2)) (line 29)
IfftShift(x, sh) == Roll2(x, sh, -(AxisH(sh) \div 2), -(AxisW(sh) \div 2))

\* torch.abs(fft_noise.real) (line 25)
AbsReal(c) == Abs(c[1])
\* a modulation that scales the spectrum by 1 + codeword
ModulateOffset(cw, spectrum) ==
    Strict([p \in 1..Len(cw) |-> (1 + cw[p]) * AbsReal(spectrum[p])], Len(cw))
\* codeword * magnitude, elementwise (line 25)
Modulate(cw, spectrum) ==
    Strict([p \in 1..Len(cw) |-> cw[p] * AbsReal(spectrum[p])], Len(cw))

\* torch.fft.ifft2(..).real of a real spectrum (line 29)
Ifft2Real(x, sh) ==
    LET y == Dft2(Strict([p \in 1..Len(x) |-> <<x[p], 0>>], Len(x)), sh, -1)
    IN  Strict([p \in 1..Len(x) |-> y[p][1] \div (AxisH(sh) * AxisW(sh))], Len(x))

\* ---- matrix product of an N-d tensor with a 2-d tensor ----
Transpose(m) ==
    LET r == m.shape[1]
        c == m.shape[2]
    IN  Tensor(<<c, r>>,
               Strict([p \in 1..(r * c) |-> m.data[((p - 1) % r) * c + ((p - 1) \div r) + 1]], r * c))

MatmulOk(a, m) == Len(a.shape) >= 1 /\ a.shape[Len(a.shape)] = m.shape[1]

\* a @ m with integer entries
Matmul(a, m) ==
    LET k == m.shape[1]
        c == m.shape[2]
        rows == Prod(a.shape) \div k
        sh == [i \in 1..Len(a.shape) |-> IF i = Len(a.shape) THEN c ELSE a.shape[i]]
        At(p) ==
            LET r == (p - 1) \div c
                j == (p - 1) % c
            IN  SumTo([i \in 0..(k - 1) |-> a.data[r * k + i + 1] * m.data[i * c + j + 1]], k)
    IN  Tensor(sh, Strict([p \in 1..(rows * c) |-> At(p)], rows * c))

\* ---- floats of recover_posteriors ----
Fin(v) == [k |-> "fin", v |-> v]
NaN == [k |-> "nan", v |-> 0]
Inf(sign) == [k |-> "inf", v |-> sign]
Float(x) == [kind |-> "float", val |-> x]
PyInt(i) == [kind |-> "int", val |-> i]

\* a \div b rounded toward zero, b > 0 (IEEE division is symmetric in the sign)
QDiv(a, b) == IF a >= 0 THEN a \div b ELSE -((-a) \div b)

RECURSIVE SqrtSearch(_, _, _)
\* the largest r in lo..hi with r * r <= x
SqrtSearch(x, lo, hi) ==
    IF lo >= hi THEN lo
    ELSE LET mid == (lo + hi + 1) \div 2
         IN  IF mid * mid <= x THEN SqrtSearch(x, mid, hi) ELSE SqrtSearch(x, lo, mid - 1)

\* np.sqrt / torch.sqrt of a finite value x (units of 1/Scale): nan below zero
FSqrt(x) == IF x < 0 THEN NaN ELSE Fin(SqrtSearch(x * Scale, 0, 32 * Scale))

\* 2 * v * (1 + v) (lines 45, 47, 49)
Radicand(v) == QDiv(2 * v * (Scale + v), Scale)

\* a division that rounds toward minus infinity
FDivFloor(a, d) ==
    CASE d.k = "nan" -> NaN
      [] d.k = "inf" -> Fin(0)
      [] d.k = "fin" /\ d.v = 0 -> IF a = 0 THEN NaN ELSE Inf(Sgn(a))
      [] d.k = "fin" /\ d.v # 0 -> Fin((a * Scale) \div d.v)
\* z / d for a finite numerator a and a denominator d
FDiv(a, d) ==
    CASE d.k = "nan" -> NaN
      [] d.k = "inf" -> Fin(0)
      [] d.k = "fin" /\ d.v = 0 -> IF a = 0 THEN NaN ELSE Inf(Sgn(a))
      [] d.k = "fin" /\ d.v # 0 -> Fin(Sgn(a) * Sgn(d.v) * ((Abs(a) * Scale) \div Abs(d.v)))

\* number of terms of the Maclaurin series of erf that are summed
ErfTerms == 16
\* beyond this argument erf is 1 to within 5/Scale
ErfSat == 2 * Scale
\* 2 / sqrt(pi) in units of 1/Scale
TwoOverSqrtPi == 1128

RECURSIVE ErfSum(_, _, _)
\* sum over k >= n of (-1)^k x^(2k+1) / (k! (2k+1)), t the term x^(2n+1)/n! with its sign
ErfSum(t, x2, n) ==
    IF n >= ErfTerms \/ t = 0 THEN 0
    ELSE QDiv(t, 2 * n + 1) + ErfSum(QDiv(-(t * x2), Scale * (n + 1)), x2, n + 1)

\* erf of a >= 0
ErfPos(a) ==
    IF a > ErfSat THEN Scale
    ELSE LET e == QDiv(ErfSum(a, (a * a) \div Scale, 0) * TwoOverSqrtPi, Scale)
         IN  IF e > Scale THEN Scale ELSE IF e < 0 THEN 0 ELSE e

\* scipy.special.erf (lines 52, 54)
Erf(x) ==
    CASE x.k = "nan" -> NaN
      [] x.k = "inf" -> Fin(x.v * Scale)
      [] x.k = "fin" -> Fin(Sgn(x.v) * ErfPos(Abs(x.v)))

\* ---- broadcasting ----
Max(a, b) == IF a >= b THEN a ELSE b
PadShape(s, n) == [i \in 1..n |-> IF i <= n - Len(s) THEN 1 ELSE s[i - (n - Len(s))]]
BroadcastOk(s1, s2) ==
    LET n == Max(Len(s1), Len(s2))
        a == PadShape(s1, n)
        b == PadShape(s2, n)
    IN  \A i \in 1..n : a[i] = b[i] \/ a[i] = 1 \/ b[i] = 1
BroadcastShape(s1, s2) ==
    LET n == Max(Len(s1), Len(s2))
        a == PadShape(s1, n)
        b == PadShape(s2, n)
    IN  [i \in 1..n |-> IF a[i] = 1 THEN b[i] ELSE a[i]]
Stride(sh, i) == Prod(SubSeq(sh, i + 1, Len(sh)))
\* the 1-based position in a tensor of shape s of the element that is
\* broadcast to the 0-based position p0 of a tensor of shape out
BIndex(p0, out, s) ==
    LET ps == PadShape(s, Len(out))
    IN  1 + SumTo([j \in 0..(Len(out) - 1) |->
                     IF ps[j + 1] = 1 THEN 0
                     ELSE ((p0 \div Stride(out, j + 1)) % out[j + 1]) * Stride(ps, j + 1)],
                  Len(out))

\* ---- recover_posteriors (lines 42-54) ----
DefaultVariance == 1500

\* lines 43-49: a float, a Tensor of floats, or the TypeError of torch.sqrt
Denominators(zz, var) ==
    CASE var.kind = "None" ->
           Tensor(zz.shape, Strict([p \in 1..Len(zz.data) |-> FSqrt(Radicand(DefaultVariance))],
                                   Len(zz.data)))
      [] var.kind = "float" -> Float(FSqrt(Radicand(var.val)))
      [] var.kind = "int" -> Raised("TypeError: sqrt(): argument 'input' must be Tensor, not int")
      [] var.kind = "Tensor" ->
           Tensor(var.shape, Strict([p \in 1..Len(var.data) |-> FSqrt(Radicand(var.data[p]))],
                                    Len(var.data)))

\* erf(zp / d), lines 52 and 54
ErfQuotient(zp, d) ==
    IF d.kind = "float"
      THEN Tensor(zp.shape, Strict([p \in 1..Len(zp.data) |-> Erf(FDiv(zp.data[p], d.val))],
                                   Len(zp.data)))
    ELSE IF ~BroadcastOk(zp.shape, d.shape)
      THEN Raised("RuntimeError: the size of tensor a must match the size of tensor b")
    ELSE LET out == BroadcastShape(zp.shape, d.shape)
         IN  Tensor(out, Strict([p \in 1..Prod(out) |->
                                   Erf(FDiv(zp.data[BIndex(p - 1, out, zp.shape)],
                                            d.data[BIndex(p - 1, out, d.shape)]))],
                                 Prod(out)))

RecoverPosteriors(zz, b, var) ==
    LET d == Denominators(zz, var)
    IN  IF d.kind = "raised" THEN d
        ELSE IF b = None THEN ErfQuotient(zz, d)
        ELSE IF ~MatmulOk(zz, b)
          THEN Raised("RuntimeError: mat1 and mat2 shapes cannot be multiplied")
        ELSE ErfQuotient(Matmul(zz, b), d)

\* ---- random_basis (lines 56-58) ----
\* the columns of U in the singular value decomposition of the 2x2 integer
\* matrix <<a, b, c, d>>, largest singular value first, entries in units of
\* 1/Scale; sg1 and sg2 are the signs LAPACK gives the two columns
LeftSingular2(m, sg1, sg2) ==
    LET a == m[1]
        b == m[2]
        c == m[3]
        d == m[4]
        p == a * a + b * b
        q == a * c + b * d
        r == c * c + d * d
        sD == SqrtSearch(((p - r) * (p - r) + 4 * q * q) * Scale * Scale, 0, 32 * Scale)
        e1 == ((p - r) * Scale + sD) \div 2
        e2 == q * Scale
        nrm == SqrtSearch(e1 * e1 + e2 * e2, 0, 32 * Scale)
        u1 == IF q = 0 THEN (IF p >= r THEN Scale ELSE 0) ELSE QDiv(e1 * Scale, nrm)
        u2 == IF q = 0 THEN (IF p >= r THEN 0 ELSE Scale) ELSE QDiv(e2 * Scale, nrm)
    IN  << <<sg1 * u1, sg1 * u2>>, <<-sg2 * u2, sg2 * u1>> >>

\* number of singular values above orth's tolerance
Rank(g) ==
    CASE g.shape[1] = 0 -> 0
      [] g.shape[1] = 1 -> IF g.data[1] = 0 THEN 0 ELSE 1
      [] g.shape[1] = 2 ->
           IF g.data[1] * g.data[4] - g.data[2] * g.data[3] # 0 THEN 2
           ELSE IF g.data = <<0, 0, 0, 0>> THEN 0 ELSE 1

\* scipy.linalg.orth(gaussian) (line 58): what it can return or raise.  On an
\* empty matrix the outcome depends on the SciPy release: older ones raise
\* from the decomposition, newer ones return an empty matrix.
OrthOutcomes(g) ==
    CASE g.shape[1] = 0 ->
           {Raised("ValueError: zero-size array"), Tensor(<<0, 0>>, <<>>)}
      [] g.shape[1] = 1 ->
           IF Rank(g) = 0 THEN {Tensor(<<1, 0>>, <<>>)}
           ELSE {Tensor(<<1, 1>>, <<sg * Scale>>) : sg \in {-1, 1}}
      [] g.shape[1] = 2 ->
           {LET u == LeftSingular2(g.data, sg[1], sg[2])
            IN  CASE Rank(g) = 0 -> Tensor(<<2, 0>>, <<>>)
                  [] Rank(g) = 1 -> Tensor(<<2, 1>>, <<u[1][1], u[1][2]>>)
                  [] Rank(g) = 2 -> Tensor(<<2, 2>>, <<u[1][1], u[2][1], u[1][2], u[2][2]>>)
            : sg \in {-1, 1} \X {-1, 1}}

\* ---- inputs of sample ----
\* codewords: every sign pattern and the all-zero codeword, of each length
CodeVals == {-1, 1}
NoiseVals == {k * NoiseUnit : k \in (-MaxNoise)..MaxNoise}
SeqsOf(S, m) == [1..m -> S]
Codewords == UNION {SeqsOf(CodeVals, m) \cup {[i \in 1..m |-> 0]} : m \in 1..MaxLen}
\* target shapes: 1-d, 2-d and batched, every transformed axis of length 1, 2 or 4
SampleShapes == {<<2>>, <<1, 1>>, <<1, 2>>, <<2, 1>>, <<2, 1, 1>>, <<2, 2>>, <<1, 4>>}
\* a 2x2 quarter-turn rotation and a 4x4 cyclic permutation (both orthonormal,
\* neither symmetric)
Rot2 == Tensor(<<2, 2>>, <<0, -1, 1, 0>>)
Perm4 == Tensor(<<4, 4>>, <<0, 1, 0, 0, 0, 0, 1, 0, 0, 0, 0, 1, 1, 0, 0, 0>>)
SampleBases == {None, Rot2, Perm4}

\* ---- inputs of recover_posteriors ----
ZVals == {k * Scale : k \in (-MaxZ)..MaxZ}
ZShapes == {<<1>>, <<2>>, <<1, 2>>, <<2, 1>>}
ZTensors == UNION {{Tensor(sh, d) : d \in SeqsOf(ZVals, Prod(sh))} : sh \in ZShapes}
Neg1 == Tensor(<<1, 1>>, <<-1>>)
RecoverBases == {None, Neg1, Rot2}
\* variances -2.0, -1.0, -0.5, 0.0, 0.5, 2.0 as floats; 0 and 2 as ints;
\* -0.5, 0.0 and 2.0 as the entries of tensors
FloatVariances == {-2 * Scale, -Scale, -(Scale \div 2), 0, Scale \div 2, 2 * Scale}
IntVariances == {0, 2 * Scale}
TensorVarVals == {-(Scale \div 2), 0, 2 * Scale}
VarShapes == {<<1>>, <<2>>, <<3>>}
Variances ==
    {None} \cup {Float(v) : v \in FloatVariances} \cup {PyInt(v) : v \in IntVariances}
      \cup UNION {{Tensor(sh, d) : d \in SeqsOf(TensorVarVals, Prod(sh))} : sh \in VarShapes}

\* ---- inputs of random_basis ----
BasisDims == {-1, 0, 1, 2}
GaussVals == (-MaxGauss)..MaxGauss

\* ---- inputs of the attack scripts ----
AttackScripts == {"attacks.main", "attacks_advanced.main"}
\* the entries of the input folder: a name is its stem and its extension
DirEntries ==
    {[stem |-> "a", ext |-> ".png"], [stem |-> "b", ext |-> ".JPG"],
     [stem |-> "c", ext |-> ".bmp"], [stem |-> "notes", ext |-> ".txt"]}
\* str.lower on the extensions in use
Lower(ext) == IF ext = ".JPG" THEN ".jpg" ELSE ext
\* the suffixes each script's listing keeps
ImageSuffixes(s) ==
    IF s = "attacks.main" THEN {".png", ".jpg", ".jpeg"}
    ELSE {".png", ".jpg", ".jpeg", ".bmp", ".tiff"}
\* os.listdir: the entries of a folder, each once, in an order of its own
Listings ==
    UNION {{l \in SeqsOf(DirEntries, m) : \A i, j \in 1..m : i # j => l[i] # l[j]}
           : m \in 0..MaxFiles}
IsImage(s, f) == Lower(f.ext) \in ImageSuffixes(s)
\* [f for f in os.listdir(...) if f.lower().endswith(...)]
ImageFiles(s, listing) == SelectSeq(listing, LAMBDA f : IsImage(s, f))
\* the attacks in the order the scripts apply them
AttackNames == <<"crop_factor", "rotation", "blur_radius", "noise_std", "jpeg_q">>
AttackChains == {SubSeq(AttackNames, 1, k) : k \in 1..MaxChain}
CouldNotProcess(f) == [msg |-> "Could not process", file |-> f]
Processed(f) == [msg |-> "Processed attacks for", file |-> f]
NoImages == [msg |-> "No images found"]
Complete(s) ==
    [msg |-> IF s = "attacks.main" THEN "Processing complete."
             ELSE "Attack simulation complete."]

VARIABLES
    pc,                   \* position of the call: "idle" before it, "done" after it
    op,                   \* the function called
    codeword, basis, target_shape,              \* arguments of sample
    codeword_reshaped, noise, fft_noise,        \* locals of sample
    coded_fourier_noise, pseudogaussian,
    z, variances, denominators,                 \* arguments and local of recover_posteriors
    n, gaussian,                                \* argument and local of random_basis
    image_files, attack_chain,                  \* locals of main in the attack scripts
    idx,                  \* how many entries of image_files the for loop has taken
    step,                 \* position in the try body of the current image
    attempted,            \* the file names the try body was entered for, in order
    saved,                \* the output files written
    printed,              \* the messages printed
    ret                   \* what the last call returned or raised

sampleVars == <<codeword, target_shape, codeword_reshaped, noise, fft_noise,
                coded_fourier_noise, pseudogaussian>>
recoverVars == <<z, variances, denominators>>
basisVars == <<n, gaussian>>
attackVars == <<image_files, attack_chain, idx, step, attempted, saved, printed>>
vars == <<pc, op, basis, sampleVars, recoverVars, basisVars, attackVars, ret>>

Init ==
    /\ pc = "idle"
    /\ op = "none"
    /\ basis = None
    /\ codeword = <<>>
    /\ target_shape = <<>>
    /\ codeword_reshaped = None
    /\ noise = None
    /\ fft_noise = <<>>
    /\ coded_fourier_noise = <<>>
    /\ pseudogaussian = None
    /\ z = None
    /\ variances = None
    /\ denominators = None
    /\ n = 0
    /\ gaussian = None
    /\ image_files = <<>>
    /\ attack_chain = <<>>
    /\ idx = 0
    /\ step = 0
    /\ attempted = <<>>
    /\ saved = {}
    /\ printed = <<>>
    /\ ret = None

\* ---- sample (lines 7-33) ----
SampleCall(cw, b, sh) ==
    /\ pc = "idle"
    /\ pc' = "reshape"
    /\ op' = "sample"
    /\ codeword' = cw
    /\ basis' = b
    /\ target_shape' = sh
    /\ codeword_reshaped' = None
    /\ noise' = None
    /\ fft_noise' = <<>>
    /\ coded_fourier_noise' = <<>>
    /\ pseudogaussian' = None
    /\ ret' = None
    /\ UNCHANGED <<attackVars, recoverVars, basisVars>>

\* line 10: codeword.reshape(target_shape)
SampleReshape ==
    /\ pc = "reshape"
    /\ IF ReshapeOk(codeword, target_shape)
         THEN /\ codeword_reshaped' = Reshape(codeword, target_shape)
              /\ pc' = "noise"
              /\ ret' = ret
         ELSE /\ codeword_reshaped' = codeword_reshaped
              /\ pc' = "done"
              /\ ret' = Raised("RuntimeError: shape is invalid for input size")
    /\ UNCHANGED <<attackVars, op, basis, codeword, target_shape, noise, fft_noise,
                   coded_fourier_noise, pseudogaussian, recoverVars, basisVars>>

\* line 14: np.random.randn(*target_shape)
SampleNoise ==
    /\ pc = "noise"
    /\ \E nz \in SeqsOf(NoiseVals, Prod(target_shape)) :
          noise' = Tensor(target_shape, nz)
    /\ pc' = "fourier"
    /\ UNCHANGED <<attackVars, op, basis, codeword, target_shape, codeword_reshaped, fft_noise,
                   coded_fourier_noise, pseudogaussian, ret, recoverVars, basisVars>>

\* lines 31-33
SampleResult(pg, b) ==
    IF b = None THEN pg
    ELSE IF MatmulOk(pg, Transpose(b)) THEN Matmul(pg, Transpose(b))
    ELSE Raised("RuntimeError: mat1 and mat2 shapes cannot be multiplied")

\* lines 20-33: transform, modulate, invert, return
SampleFourier ==
    /\ pc = "fourier"
    /\ pc' = "done"
    /\ IF Len(target_shape) < 2
         THEN /\ ret' = Raised("IndexError: Dimension out of range")
              /\ UNCHANGED <<fft_noise, coded_fourier_noise, pseudogaussian>>
         ELSE /\ fft_noise' = FftShift(Fft2(noise), target_shape)
              /\ coded_fourier_noise' = Modulate(codeword_reshaped.data, fft_noise')
              /\ pseudogaussian' =
                    Tensor(target_shape,
                           Ifft2Real(IfftShift(coded_fourier_noise', target_shape), target_shape))
              /\ ret' = SampleResult(pseudogaussian', basis)
    /\ UNCHANGED <<attackVars, op, basis, codeword, target_shape, codeword_reshaped, noise,
                   recoverVars, basisVars>>

\* ---- recover_posteriors (lines 42-54), one call ----
RecoverCall(zz, b, var) ==
    /\ pc = "idle"
    /\ pc' = "done"
    /\ op' = "recover_posteriors"
    /\ z' = zz
    /\ basis' = b
    /\ variances' = var
    /\ denominators' = Denominators(zz, var)
    /\ ret' = RecoverPosteriors(zz, b, var)
    /\ UNCHANGED <<attackVars, sampleVars, basisVars>>

\* ---- random_basis (lines 56-58) ----
BasisCall(m) ==
    /\ pc = "idle"
    /\ op' = "random_basis"
    /\ n' = m
    /\ IF m < 0
         THEN /\ pc' = "done"
              /\ ret' = Raised("RuntimeError: Trying to create tensor with negative dimension")
         ELSE /\ pc' = "orth"
              /\ ret' = ret
    /\ UNCHANGED <<attackVars, basis, gaussian, sampleVars, recoverVars>>

\* line 57: torch.randn(n, n)
BasisRandn ==
    /\ pc = "orth"
    /\ gaussian = None
    /\ \E g \in SeqsOf(GaussVals, n * n) : gaussian' = Tensor(<<n, n>>, g)
    /\ UNCHANGED <<attackVars, pc, op, n, basis, ret, sampleVars, recoverVars>>

\* line 58: orth(gaussian)
BasisOrth ==
    /\ pc = "orth"
    /\ gaussian # None
    /\ pc' = "done"
    /\ ret' \in OrthOutcomes(gaussian)
    /\ UNCHANGED <<attackVars, op, n, basis, gaussian, sampleVars, recoverVars>>

\* ---- main of attacks.py (lines 161-179) and attacks_advanced.py (lines 110-162) ----
\* the listing of the input folder; attacks_advanced returns on an empty one
AttackList(s, listing, chain) ==
    /\ pc = "idle"
    /\ op' = s
    /\ image_files' = ImageFiles(s, listing)
    /\ attack_chain' = chain
    /\ IF s = "attacks_advanced.main" /\ ImageFiles(s, listing) = <<>>
         THEN /\ printed' = Append(printed, NoImages)
              /\ pc' = "done"
         ELSE /\ printed' = printed
              /\ pc' = "for"
    /\ UNCHANGED <<idx, step, attempted, saved, basis, sampleVars, recoverVars, basisVars, ret>>

\* for filename in image_files: the next file enters the try body, or the
\* list is used up and the completion message is printed
AttackFor ==
    /\ pc = "for"
    /\ IF idx < Len(image_files)
         THEN /\ idx' = idx + 1
              /\ attempted' = Append(attempted, image_files[idx + 1])
              /\ step' = 0
              /\ pc' = "try"
              /\ printed' = printed
         ELSE /\ printed' = Append(printed, Complete(op))
              /\ pc' = "done"
              /\ UNCHANGED <<idx, attempted, step>>
    /\ UNCHANGED <<op, image_files, attack_chain, saved, basis, sampleVars, recoverVars,
                   basisVars, ret>>

\* one statement of the try body succeeds: step 0 opens and converts the
\* image, steps 1..Len(attack_chain) apply the attacks (attacks_advanced saves
\* each result), the last step saves the result (attacks) or prints the
\* per-image message (attacks_advanced)
AttackStep ==
    /\ pc = "try"
    /\ LET filename == image_files[idx]
           k == Len(attack_chain)
       IN  CASE step = 0 ->
                  /\ step' = 1
                  /\ UNCHANGED <<pc, saved, printed>>
             [] step >= 1 /\ step <= k ->
                  /\ step' = step + 1
                  /\ saved' = IF op = "attacks_advanced.main"
                                THEN saved \cup {<<attack_chain[step], filename.stem>>}
                                ELSE saved
                  /\ UNCHANGED <<pc, printed>>
             [] step = k + 1 ->
                  /\ pc' = "for"
                  /\ step' = step
                  /\ saved' = IF op = "attacks.main"
                                THEN saved \cup {<<"final_output_dir", filename.stem>>}
                                ELSE saved
                  /\ printed' = IF op = "attacks_advanced.main"
                                  THEN Append(printed, Processed(filename))
                                  ELSE printed
    /\ UNCHANGED <<op, image_files, attack_chain, idx, attempted, basis, sampleVars,
                   recoverVars, basisVars, ret>>

\* the current statement of the try body raises an Exception
AttackRaise ==
    /\ pc = "try"
    /\ pc' = "except"
    /\ UNCHANGED <<op, attackVars, basis, sampleVars, recoverVars, basisVars, ret>>

\* an exception leaves the loop instead of being handled
AttackExceptPropagates ==
    /\ pc = "except"
    /\ pc' = "done"
    /\ UNCHANGED <<op, attackVars, basis, sampleVars, recoverVars, basisVars, ret>>
\* except Exception as e: print(...), and the loop goes on
AttackExcept ==
    /\ pc = "except"
    /\ printed' = Append(printed, CouldNotProcess(image_files[idx]))
    /\ pc' = "for"
    /\ UNCHANGED <<op, image_files, attack_chain, idx, step, attempted, saved, basis,
                   sampleVars, recoverVars, basisVars, ret>>

NextSample ==
    \/ pc = "idle" /\ \E cw \in Codewords, b \in SampleBases, sh \in SampleShapes :
                         SampleCall(cw, b, sh)
    \/ SampleReshape
    \/ SampleNoise
    \/ SampleFourier

NextRecover ==
    pc = "idle" /\ \E zz \in ZTensors, b \in RecoverBases, var \in Variances :
                      RecoverCall(zz, b, var)

NextBasis ==
    \/ pc = "idle" /\ \E m \in BasisDims : BasisCall(m)
    \/ BasisRandn
    \/ BasisOrth

NextAttack ==
    \/ pc = "idle" /\ \E s \in AttackScripts, listing \in Listings, chain \in AttackChains :
                         AttackList(s, listing, chain)
    \/ AttackFor
    \/ AttackStep
    \/ AttackRaise
    \/ AttackExcept

Next == NextSample \/ NextRecover \/ NextBasis \/ NextAttack

Spec == Init /\ [][Next]_vars
SpecSample == Init /\ [][NextSample]_vars
SpecRecover == Init /\ [][NextRecover]_vars
SpecBasis == Init /\ [][NextBasis]_vars
SpecAttack == Init /\ [][NextAttack]_vars
\* the interpreter runs main to its end: a step that is possible is taken
SpecAttackFair == SpecAttack /\ WF_vars(NextAttack)

\* ---- properties ----
Done(f) == pc = "done" /\ op = f
ZeroSeq(q) == \A p \in 1..Len(q) : q[p] = 0
\* the statistic the mapping is applied to (line 52 or 54)
Projected == IF basis = None THEN z ELSE Matmul(z, basis)
BasisUsable == basis = None \/ MatmulOk(z, basis)
\* the variance that applies at 0-based position p0 of a result of shape out
VarianceAt(p0, out) ==
    CASE variances.kind = "None" -> DefaultVariance
      [] variances.kind \in {"float", "int"} -> variances.val
      [] variances.kind = "Tensor" -> variances.data[BIndex(p0, out, variances.shape)]
InvalidVariance ==
    \/ variances.kind \in {"float", "int"} /\ variances.val <= 0
    \/ variances.kind = "Tensor" /\ \E p \in 1..Len(variances.data) : variances.data[p] <= 0
PositiveVariance ==
    \/ variances.kind = "None"
    \/ variances.kind \in {"float", "int"} /\ variances.val > 0
    \/ variances.kind = "Tensor" /\ \A p \in 1..Len(variances.data) : variances.data[p] > 0
\* an array variance can be broadcast to the shape of the statistic
VarianceFits ==
    variances.kind = "Tensor" =>
        /\ BroadcastOk(Projected.shape, variances.shape)
        /\ BroadcastShape(Projected.shape, variances.shape) = Projected.shape

\* C1: recover_posteriors called with a variance <= 0 (scalar or any entry of
\* an array) signals an error to the caller and returns no result.
C1_InvalidVarianceRaises ==
    (Done("recover_posteriors") /\ BasisUsable /\ VarianceFits /\ InvalidVariance)
        => ret.kind = "raised"

\* C2: recover_posteriors applied to an all-zero z returns an all-zero array
\* of the shape of z, for every variance setting (absent, any scalar, any
\* array; stated here for the variances above zero only) and with or without
\* a basis.
C2_ZeroInZeroOut ==
    (/\ Done("recover_posteriors")
     /\ ZeroSeq(z.data)
     /\ BasisUsable
     /\ VarianceFits
     /\ PositiveVariance)
        => /\ ret.kind = "Tensor"
           /\ ret.shape = z.shape
           /\ \A p \in 1..Len(ret.data) : ret.data[p] = Fin(0)

\* C3: for a positive variance of any of the three kinds (absent, a single
\* scalar whether float or integer, an array) the call does not fail, the
\* denominator is a scalar exactly when the variance is a scalar, and the
\* result is erf(z' / sqrt(2 v (1 + v))) at every element.
C3_DenominatorByKind ==
    (Done("recover_posteriors") /\ BasisUsable /\ VarianceFits /\ PositiveVariance)
        => /\ ret.kind = "Tensor"
           /\ denominators.kind = (IF variances.kind \in {"float", "int"} THEN "float" ELSE "Tensor")
           /\ ret.shape = Projected.shape
           /\ \A p \in 1..Len(ret.data) :
                ret.data[p] = Erf(FDiv(Projected.data[p],
                                       FSqrt(Radicand(VarianceAt(p - 1, ret.shape)))))

\* |c|^2 of a complex number
AbsSq(c) == c[1] * c[1] + c[2] * c[2]
\* C4: in sample the modulated spectrum equals, at every position, the
\* codeword value times the full complex magnitude |F| of the centered noise
\* spectrum (m = c |F| stated without a square root: m^2 = c^2 |F|^2 and m
\* has the sign of c).
C4_FullMagnitude ==
    (Done("sample") /\ coded_fourier_noise # <<>>)
        => \A p \in 1..Len(coded_fourier_noise) :
              /\ coded_fourier_noise[p] * coded_fourier_noise[p]
                    = codeword[p] * codeword[p] * AbsSq(fft_noise[p])
              /\ coded_fourier_noise[p] * codeword[p] >= 0

\* C5: when a basis of size n x n with n = prod(target_shape) is passed, the
\* sample is flattened to length n and multiplied by the basis transpose, and
\* the call returns that vector of length n.
C5_FlattenedProjection ==
    (/\ Done("sample")
     /\ Len(target_shape) >= 2
     /\ Len(codeword) = Prod(target_shape)
     /\ basis # None
     /\ basis.shape = <<Prod(target_shape), Prod(target_shape)>>)
        => /\ ret.kind = "Tensor"
           /\ ret = Matmul(Tensor(<<Prod(target_shape)>>, pseudogaussian.data), Transpose(basis))

\* C6: when the codeword's element count differs from that of target_shape,
\* sample raises at the reshape, before any noise is drawn and without any
\* reshaped (truncated or padded) codeword; when the counts match, the
\* reshaped codeword has target_shape and the codeword's elements in order.
C6_ReshapeOrFail ==
    /\ (op = "sample" /\ pc = "reshape") => noise = None
    /\ (op = "sample" /\ pc \in {"noise", "fourier", "done"}) =>
          IF Len(codeword) # Prod(target_shape)
            THEN /\ pc = "done"
                 /\ ret.kind = "raised"
                 /\ noise = None
                 /\ codeword_reshaped = None
                 /\ pseudogaussian = None
            ELSE /\ codeword_reshaped.kind = "Tensor"
                 /\ codeword_reshaped.shape = target_shape
                 /\ codeword_reshaped.data = codeword
C6_Witness ==
    /\ Done("sample")
    /\ Len(codeword) > Prod(target_shape)
    /\ ret.kind = "raised"
    /\ noise = None

\* C7: for every noise draw, sample applied to an all-zero codeword of shape
\* S (at least two axes) with target_shape = S and no basis returns the
\* all-zero array of shape S.
C7_ZeroCodeword ==
    (/\ Done("sample")
     /\ Len(target_shape) >= 2
     /\ Len(codeword) = Prod(target_shape)
     /\ ZeroSeq(codeword)
     /\ basis = None)
        => /\ ret.kind = "Tensor"
           /\ ret.shape = target_shape
           /\ Len(ret.data) = Prod(target_shape)
           /\ ZeroSeq(ret.data)
C7_Witness ==
    /\ Done("sample")
    /\ target_shape = <<1, 4>>
    /\ ZeroSeq(codeword)
    /\ basis = None
    /\ ret.kind = "Tensor"
    /\ ~ZeroSeq(noise.data)
    /\ \E p \in 1..4 : fft_noise[p][1] # 0

NegFloat(x) == IF x.k = "nan" THEN NaN ELSE [k |-> x.k, v |-> -x.v]
NegInts(t) == Tensor(t.shape, [p \in 1..Len(t.data) |-> -t.data[p]])
NegFloats(t) == Tensor(t.shape, [p \in 1..Len(t.data) |-> NegFloat(t.data[p])])
\* C8: whenever recover_posteriors(z, basis, variances) returns,
\* recover_posteriors(-z, basis, variances) returns its elementwise negation
\* (the negation of nan being nan), in each variance branch and with or
\* without a basis.
C8_OddSymmetry ==
    (Done("recover_posteriors") /\ ret.kind = "Tensor")
        => RecoverPosteriors(NegInts(z), basis, variances) = NegFloats(ret)
C8_Witness ==
    /\ Done("recover_posteriors")
    /\ basis = Rot2
    /\ variances.kind = "Tensor"
    /\ ret.kind = "Tensor"
    /\ \E p \in 1..Len(ret.data) :
          ret.data[p].k = "fin" /\ ret.data[p].v > 0 /\ ret.data[p].v < Scale

\* C9: every value recover_posteriors returns lies in [-1, 1] and the result
\* has the shape of z, or of z @ basis when a basis is given.
C9_RangeAndShape ==
    (Done("recover_posteriors") /\ ret.kind = "Tensor")
        => /\ \A p \in 1..Len(ret.data) :
                ret.data[p].k = "fin" /\ ret.data[p].v >= -Scale /\ ret.data[p].v <= Scale
           /\ ret.shape = Projected.shape

\* C10: random_basis(n) raises for every n <= 0 and never returns a matrix.
C10_NonPositiveRaises ==
    (Done("random_basis") /\ n <= 0) => ret.kind = "raised"

\* the entry (i, j) of B.T @ B for a matrix B with entries in units of 1/Scale,
\* in units of 1/Scale^2
Gram(b, i, j) ==
    LET c == b.shape[2]
    IN  SumTo([k0 \in 0..(b.shape[1] - 1) |-> b.data[k0 * c + i] * b.data[k0 * c + j]],
              b.shape[1])
\* the rounding of a fixed-point column of unit length shows in B.T @ B as at
\* most this much, in units of 1/Scale^2
OrthTol == 4 * Scale
Orthonormal(b) ==
    \A i, j \in 1..b.shape[2] :
        Abs(Gram(b, i, j) - (IF i = j THEN Scale * Scale ELSE 0)) <= OrthTol
FullRank == gaussian # None /\ Rank(gaussian) = n

\* random_basis on a draw of full rank returns an n x n matrix with
\* orthonormal columns
FullRankOrthonormal ==
    (Done("random_basis") /\ n >= 1 /\ FullRank)
        => ret.kind = "Tensor" /\ ret.shape = <<n, n>> /\ Orthonormal(ret)

\* C11: for every n >= 1, random_basis(n) returns a matrix B of shape exactly
\* n x n whose columns are orthonormal: B.T @ B equals the identity within the
\* tolerance.
C11_SquareOrthonormal ==
    (Done("random_basis") /\ n >= 1)
        => ret.kind = "Tensor" /\ ret.shape = <<n, n>> /\ Orthonormal(ret)

\* ---- the image loops of the attack scripts ----
InAttack == op \in AttackScripts
\* the for loop is reached: attacks_advanced returns before it on an empty list
LoopEntered ==
    InAttack /\ ~(op = "attacks_advanced.main" /\ image_files = <<>>)
\* main has printed its completion message as its last act
Finished ==
    pc = "done" /\ printed # <<>> /\ printed[Len(printed)] = Complete(op)
Times(q, x) == Cardinality({p \in 1..Len(q) : q[p] = x})
\* the try body ran to its end for f
Completed(f) ==
    IF op = "attacks.main" THEN <<"final_output_dir", f.stem>> \in saved
    ELSE Times(printed, Processed(f)) = 1
Failed(f) == Times(printed, CouldNotProcess(f)) = 1
\* the files attempted so far are the first idx files of the list, in order
AttemptedInOrder == InAttack => attempted = SubSeq(image_files, 1, idx)
\* when main ends after entering the loop, every listed file was attempted
\* once, in list order, each either completed or reported as failed, and the
\* completion message is printed
LoopRunsOut ==
    (LoopEntered /\ pc = "done")
        => /\ attempted = image_files
           /\ \A p \in 1..Len(image_files) :
                 /\ Times(attempted, image_files[p]) = 1
                 /\ Completed(image_files[p]) # Failed(image_files[p])
           /\ Finished

\* C12: in both attack scripts an exception raised while processing one image
\* is caught for that image only: every listed image file is attempted exactly
\* once, in list order, the handler always hands control back to the loop, so
\* a failure never keeps a later image from being processed, and the loop
\* always reaches the final completion message.
C12_PerImageCatch ==
    /\ [](AttemptedInOrder /\ LoopRunsOut)
    /\ [][pc = "except" => pc' = "for"]_vars
    /\ (LoopEntered ~> Finished)
\* main has finished a list whose first image failed and whose second image
\* was processed to its end
C12_Witness ==
    /\ InAttack
    /\ Finished
    /\ Len(image_files) >= 2
    /\ Failed(image_files[1])
    /\ Completed(image_files[2])
    /\ ~Failed(image_files[2])

====
